---- MODULE Spec2Model ----
(***************************************************************************)
(* KBDB.py: a retrieval facade.  Each MCP tool (search_style, search_qa,   *)
(* search_semantic_similarity) frames the query text, asks the embedding   *)
(* backend for a vector, runs one ranked nearest-neighbour query on the    *)
(* process-wide psycopg2 connection rag_server.db_conn and formats the     *)
(* rows.  Requests are threads of the tool server; the connection and the  *)
(* configuration tables are the only shared state.                         *)
(***************************************************************************)
EXTENDS Integers, Sequences, FiniteSets, TLC

\* ------------------------------------------------------------------ bounds
NumThreads == 2     \* request slots that may be in flight together
MaxTopK    == 2     \* top_k ranges over -1 .. MaxTopK

Threads == 1..NumThreads
TopKs   == -1..MaxTopK
Queries == {"refund policy"}

\* ------------------------------------------------- configuration tables
NOMIC == "nomic-embed-text:v1.5"
GGUF  == "hamidakach/nomic-embed-text-v1.5-GGUF"

\* @dataclass Model: suffix defaults to "", distance_metric to "cosine".
Model(model, prefix) ==
    [model |-> model, prefix |-> prefix, suffix |-> "", distance_metric |-> "cosine"]

Task(name, description) == [name |-> name, description |-> description]

ProfileKeys == {"qa", "style", "semantic", "similar_code"}

MODELS_UnknownMetric ==
    [k \in ProfileKeys |->
        CASE k = "qa"       -> Model(NOMIC, "search_query: ")
          [] k = "style"    -> Model(NOMIC, "classification: ")
          [] k = "semantic" -> Model(NOMIC, "clustering: ")
          [] OTHER          -> [Model(GGUF, "clustering: ")
                                  EXCEPT !.distance_metric = "dot"]]

MODELS ==
    [k \in ProfileKeys |->
        CASE k = "qa"       -> Model(NOMIC, "search_query: ")
          [] k = "style"    -> Model(NOMIC, "classification: ")
          [] k = "semantic" -> Model(NOMIC, "clustering: ")
          [] OTHER          -> Model(GGUF,  "clustering: ")]

TASKS ==
    [k \in ProfileKeys |->
        CASE k = "style"    -> Task("style", "Search for content clustered by theme or style")
          [] k = "qa"       -> Task("qa", "Search optimized for question->answer pairs")
          [] k = "semantic" -> Task("semantic", "Search based on semantic similarity")
          [] OTHER          -> Task("similar_code", "Search for similar code snippets")]

Metrics == {"cosine", "inner_product", "l2"}

DISTANCE_OPERATORS ==
    [m \in Metrics |->
        CASE m = "cosine"        -> "<=>"
          [] m = "inner_product" -> "<#>"
          [] OTHER               -> "<->"]

DISTANCE_ORDER ==
    [m \in Metrics |->
        CASE m = "cosine"        -> "ASC"
          [] m = "inner_product" -> "DESC"
          [] OTHER               -> "ASC"]

\* The @mcp.tool functions and the registry keys each one hard-codes.
Tools == {"search_style", "search_qa", "search_semantic_similarity"}

ToolProfile ==
    [t \in Tools |->
        CASE t = "search_style" -> [model |-> "style",    task |-> "style"]
          [] t = "search_qa"    -> [model |-> "qa",       task |-> "qa"]
          [] OTHER              -> [model |-> "semantic", task |-> "semantic"]]

\* ------------------------------------------------------ the document store
\* embeddings JOIN document_chunks JOIN documents, one record per embedding.
Emb(chunk, model, task, vec, doc_id, doc_name, content) ==
    [chunk_id |-> chunk, model |-> model, task |-> task, embedding |-> vec,
     doc_id |-> doc_id, doc_name |-> doc_name, content |-> content]

STORE ==
    { Emb(1, NOMIC, "qa",    <<2, 1>>, 42, "policy.md", "Refunds within 30 days."),
      Emb(2, NOMIC, "qa",    <<1, 2>>,  7, "faq.md",    "Contact support for refunds."),
      Emb(3, NOMIC, "qa",    <<-1, 1>>, 9, "terms.md",  "Terms of service."),
      Emb(4, NOMIC, "style", <<1, 1>>, 42, "policy.md", "Refunds within 30 days."),
      Emb(5, NOMIC, "style", <<2, 2>>, 11, "style.md",  "Use the active voice."),
      Emb(6, GGUF,  "similar_code", <<1, 0>>, 13, "main.py", "def main(): pass") }

\* The vector the embedding backend answers a framed query with.
QueryVectors == { <<1, 0>> }

\* Query vectors handed to _search_database when it is run on its own.
DirectVectors == { <<1, 0>>, <<1, 3>>, <<-1, 2>> }

Dot(a, b) == a[1] * b[1] + a[2] * b[2]
Norm2(a)  == Dot(a, a)
Sub(a, b) == <<a[1] - b[1], a[2] - b[2]>>

\* ----------------------------------------------- the store's ranking query
\* pgvector's operators, compared rather than evaluated (cosine distance and
\* the Euclidean norm are irrational): OpLess is (e1 op q) < (e2 op q).
\*   <#>  negative inner product    -(e . q)
\*   <->  Euclidean distance        |e - q|
\*   <=>  cosine distance           1 - (e . q) / (|e| |q|)
CosGreater(d1, n1, d2, n2) ==
    IF d1 >= 0 /\ d2 < 0 THEN TRUE
    ELSE IF d1 < 0 /\ d2 >= 0 THEN FALSE
    ELSE IF d1 >= 0 THEN d1 * d1 * n2 > d2 * d2 * n1
    ELSE d1 * d1 * n2 < d2 * d2 * n1

OpLess(operator, e1, e2, q) ==
    CASE operator = "<#>" -> (0 - Dot(e1, q)) < (0 - Dot(e2, q))
      [] operator = "<->" -> Norm2(Sub(e1, q)) < Norm2(Sub(e2, q))
      [] OTHER            -> CosGreater(Dot(e1, q), Norm2(e1), Dot(e2, q), Norm2(e2))

\* ORDER BY e.embedding {operator} q {order_direction}: r1 must come before r2.
Before(operator, order_direction, r1, r2, q) ==
    IF order_direction = "ASC"
    THEN OpLess(operator, r1.embedding, r2.embedding, q)
    ELSE OpLess(operator, r2.embedding, r1.embedding, q)

Min(a, b) == IF a < b THEN a ELSE b

\* SEARCH_QUERY up to its ORDER BY and LIMIT: every sequence of embeddings the
\* store may answer with (rows that tie may come in either order).
SEARCH_QUERY(operator, order_direction, model_id, task_name, q, limit) ==
    LET matching == { r \in STORE : r.model = model_id /\ r.task = task_name }
        n        == Min(limit, Cardinality(matching))
    IN  { s \in [1..n -> matching] :
            /\ \A i, j \in 1..n : i < j =>
                  /\ s[i] /= s[j]
                  /\ ~Before(operator, order_direction, s[j], s[i], q)
            /\ \A r \in matching : (\A i \in 1..n : s[i] /= r) =>
                  \A i \in 1..n : ~Before(operator, order_direction, r, s[i], q) }

\* The SELECT list: d.doc_id, d.name AS doc_name, dc.content AS matching_content.
SelectColumns(s) ==
    [i \in 1..Len(s) |-> <<s[i].doc_id, s[i].doc_name, s[i].content>>]

\* ------------------------------------------------------------- formatting
NoResults == "No relevant information found in the knowledge base."

\* A tool's return value is a string; it is kept as the sequence of the
\* pieces it is concatenated from.
SearchFailed(msg) == <<"Search failed: ", msg>>

IsFailure(text) == Len(text) > 0 /\ text[1] = "Search failed: "

\* The list comprehension of _search_database: rows to dicts, doc_id through str().
RowsToDicts(rows) ==
    [i \in 1..Len(rows) |->
        [doc_id |-> ToString(rows[i][1]), doc_name |-> rows[i][2],
         matching_content |-> rows[i][3]]]

FormattedPart(i, result) ==
    << "--- Result ", ToString(i), " | ", result.doc_name, " | ", result.doc_id, " ---\n",
       "--- Document Start ---\n",
       "Content: ", result.matching_content, "\n",
       "--- Document End ---\n" >>

\* Pieces in one formatted part.
PartLen == 12

RECURSIVE Join(_)
Join(parts) ==
    IF Len(parts) = 0 THEN <<"">>
    ELSE IF Len(parts) = 1 THEN parts[1]
    ELSE parts[1] \o <<"\n">> \o Join(Tail(parts))

_format_results_ZeroBased(results) ==
    IF Len(results) = 0 THEN <<NoResults>>
    ELSE Join([i \in 1..Len(results) |-> FormattedPart(i - 1, results[i])])

_format_results_NoSentinel(results) ==
    Join([i \in 1..Len(results) |-> FormattedPart(i, results[i])])

_format_results(results) ==
    IF Len(results) = 0 THEN <<NoResults>>
    ELSE Join([i \in 1..Len(results) |-> FormattedPart(i, results[i])])

\* ------------------------------------------------------------------ state
VARIABLES
    models, tasks, distance_operators, distance_order,  \* the module's tables
    conn_status,    \* transaction status of rag_server.db_conn
    pc,             \* where each request thread is
    call,           \* each thread's arguments, locals and return value
    q_pc, q_in, q_ranked    \* one _search_database query on its own

config == <<models, tasks, distance_operators, distance_order>>
qvars  == <<q_pc, q_in, q_ranked>>
vars   == <<models, tasks, distance_operators, distance_order,
            conn_status, pc, call, q_pc, q_in, q_ranked>>

NoVector == <<>>

\* A thread with no request: nothing bound yet.
NoCall ==
    [tool |-> "", top_k |-> 0, formatted_text |-> "", query_embedding |-> NoVector,
     rows |-> <<>>, result |-> <<>>, error |-> "none",
     emb_requests |-> 0, store_queries |-> 0]

NoQuery ==
    [model |-> MODELS["qa"], task |-> TASKS["qa"], query_embedding |-> NoVector, top_k |-> 0]

\* RAGMCPServer.__init__: both connections are up (a failure exits the process).
_initialize_connections ==
    /\ conn_status = "IDLE"

Init ==
    /\ models = MODELS
    /\ tasks = TASKS
    /\ distance_operators = DISTANCE_OPERATORS
    /\ distance_order = DISTANCE_ORDER
    /\ _initialize_connections
    /\ pc = [t \in Threads |-> "idle"]
    /\ call = [t \in Threads |-> NoCall]
    /\ q_pc = "off"
    /\ q_in = NoQuery
    /\ q_ranked = <<>>

\* ---------------------------------------------------------------- messages
EmbeddingTimeout == "Request timed out."
NegativeLimit    == "LIMIT must not be negative"
AbortedTxn       == "current transaction is aborted, commands ignored until end of transaction block"
StatementFailed  == "canceling statement due to statement timeout"
KeyErrorMsg(k)   == "'" \o k \o "'"

\* ---------------------------------------------------------------- requests
\* The tool returns text: its frame (which tool, the framed text) is gone, and
\* what is kept of the request is what it was asked, what the backends
\* answered and what it returned.
Returned(c, error, text) ==
    [c EXCEPT !.tool = "", !.formatted_text = "", !.error = error, !.result = text]

\* A tool is called: model and task are looked up, and _get_embedding frames
\* the text and sends it to the embedding backend.
Invoke(t, tool, query, top_k) ==
    /\ pc[t] = "idle"
    /\ LET model == models[ToolProfile[tool].model]
       IN  call' = [call EXCEPT ![t] =
                [NoCall EXCEPT !.tool = tool, !.top_k = top_k,
                               !.formatted_text = model.prefix \o query \o model.suffix,
                               !.emb_requests = 1]]
    /\ pc' = [pc EXCEPT ![t] = "embed"]
    /\ UNCHANGED <<config, conn_status, qvars>>

\* The backend answers; _search_database resolves the metric (a KeyError is
\* caught by the tool) and sends the query with cursor.execute.
EmbedOk(t, v) ==
    /\ pc[t] = "embed"
    /\ LET model == models[ToolProfile[call[t].tool].model]
       IN  IF model.distance_metric \in DOMAIN distance_operators
              /\ model.distance_metric \in DOMAIN distance_order
           THEN /\ call' = [call EXCEPT ![t].query_embedding = v,
                                        ![t].store_queries = 1]
                /\ pc' = [pc EXCEPT ![t] = "execute"]
           ELSE /\ call' = [call EXCEPT ![t] =
                            Returned([@ EXCEPT !.query_embedding = v], "config",
                                     SearchFailed(KeyErrorMsg(model.distance_metric)))]
                /\ pc' = [pc EXCEPT ![t] = "done"]
    /\ UNCHANGED <<config, conn_status, qvars>>

EmbedFail_Swallow(t) ==
    /\ pc[t] = "embed"
    /\ call' = [call EXCEPT ![t].error = "embedding",
                            ![t].query_embedding = <<0, 0>>,
                            ![t].store_queries = 1]
    /\ pc' = [pc EXCEPT ![t] = "execute"]
    /\ UNCHANGED <<config, conn_status, qvars>>

EmbedFail_Retry(t) ==
    /\ pc[t] = "embed"
    /\ IF call[t].emb_requests < 2
       THEN /\ call' = [call EXCEPT ![t].emb_requests = @ + 1]
            /\ pc' = pc
       ELSE /\ call' = [call EXCEPT ![t] =
                        Returned(@, "embedding", SearchFailed(EmbeddingTimeout))]
            /\ pc' = [pc EXCEPT ![t] = "done"]
    /\ UNCHANGED <<config, conn_status, qvars>>

\* The backend call raises: _get_embedding logs and re-raises, the tool's
\* except clause returns the failure string.
EmbedFail(t) ==
    /\ pc[t] = "embed"
    /\ call' = [call EXCEPT ![t] =
                Returned(@, "embedding", SearchFailed(EmbeddingTimeout))]
    /\ pc' = [pc EXCEPT ![t] = "done"]
    /\ UNCHANGED <<config, conn_status, qvars>>

\* cursor.execute succeeds: the first statement opens a transaction, which
\* nothing in the program ever commits or rolls back.
ExecuteOk(t) ==
    /\ pc[t] = "execute"
    /\ conn_status /= "INERROR"
    /\ call[t].top_k >= 0
    /\ LET prof  == ToolProfile[call[t].tool]
           model == models[prof.model]
           task  == tasks[prof.task]
       IN  \E s \in SEARCH_QUERY(distance_operators[model.distance_metric],
                                 distance_order[model.distance_metric],
                                 model.model, task.name,
                                 call[t].query_embedding, call[t].top_k) :
              call' = [call EXCEPT ![t].rows = SelectColumns(s)]
    /\ conn_status' = "INTRANS"
    /\ pc' = [pc EXCEPT ![t] = "fetch"]
    /\ UNCHANGED <<config, qvars>>

\* cursor.execute raises: the server refuses every statement of an aborted
\* transaction, refuses a negative LIMIT, or the statement itself fails.  The
\* transaction is left aborted; the tool returns the failure string.
ExecuteFail(t) ==
    /\ pc[t] = "execute"
    /\ LET cause == IF conn_status = "INERROR" THEN "aborted"
                    ELSE IF call[t].top_k < 0 THEN "limit"
                    ELSE "store"
           msg   == IF cause = "aborted" THEN AbortedTxn
                    ELSE IF cause = "limit" THEN NegativeLimit
                    ELSE StatementFailed
       IN  call' = [call EXCEPT ![t] = Returned(@, cause, SearchFailed(msg))]
    /\ conn_status' = "INERROR"
    /\ pc' = [pc EXCEPT ![t] = "done"]
    /\ UNCHANGED <<config, qvars>>

\* cursor.fetchall, the rows as dicts, _format_results, return.
FetchReturn(t) ==
    /\ pc[t] = "fetch"
    /\ call' = [call EXCEPT ![t] =
                Returned(@, "none", _format_results(RowsToDicts(call[t].rows)))]
    /\ pc' = [pc EXCEPT ![t] = "done"]
    /\ UNCHANGED <<config, conn_status, qvars>>

\* The caller has the string; the thread is free for the next request.
Return(t) ==
    /\ pc[t] = "done"
    /\ call' = [call EXCEPT ![t] = NoCall]
    /\ pc' = [pc EXCEPT ![t] = "idle"]
    /\ UNCHANGED <<config, conn_status, qvars>>

Next ==
    \E t \in Threads :
        \/ \E tool \in Tools, query \in Queries, k \in TopKs : Invoke(t, tool, query, k)
        \/ \E v \in QueryVectors : EmbedOk(t, v)
        \/ EmbedFail(t)
        \/ ExecuteOk(t)
        \/ ExecuteFail(t)
        \/ FetchReturn(t)
        \/ Return(t)

Spec == Init /\ [][Next]_vars

\* ------------------------------------------- _search_database on its own
\* _search_database takes the Model as a parameter: here it is called with a
\* profile of every distance metric the Model dataclass documents.
WithMetric(model, metric) == [model EXCEPT !.distance_metric = metric]

QueryInputs ==
    { [model |-> WithMetric(MODELS[k], m), task |-> TASKS[k],
       query_embedding |-> v, top_k |-> n] :
         k \in {"qa", "style"}, m \in Metrics, v \in DirectVectors, n \in TopKs }

InitQuery ==
    /\ models = MODELS
    /\ tasks = TASKS
    /\ distance_operators = DISTANCE_OPERATORS
    /\ distance_order = DISTANCE_ORDER
    /\ _initialize_connections
    /\ pc = [t \in Threads |-> "idle"]
    /\ call = [t \in Threads |-> NoCall]
    /\ q_pc = "call"
    /\ q_in \in QueryInputs
    /\ q_ranked = <<>>

\* execute and fetchall succeed: q_ranked is the store's ranking.
QueryOk ==
    /\ q_pc = "call"
    /\ conn_status /= "INERROR"
    /\ q_in.top_k >= 0
    /\ q_ranked' \in SEARCH_QUERY(distance_operators[q_in.model.distance_metric],
                                  distance_order[q_in.model.distance_metric],
                                  q_in.model.model, q_in.task.name,
                                  q_in.query_embedding, q_in.top_k)
    /\ q_pc' = "ranked"
    /\ conn_status' = "INTRANS"
    /\ UNCHANGED <<config, pc, call, q_in>>

\* execute raises (negative LIMIT, or the statement fails) and is re-raised.
QueryFail ==
    /\ q_pc = "call"
    /\ q_pc' = "raised"
    /\ conn_status' = "INERROR"
    /\ UNCHANGED <<config, pc, call, q_in, q_ranked>>

NextQuery == QueryOk \/ QueryFail

QuerySpec == InitQuery /\ [][NextQuery]_vars

\* ------------------------------------------------------------------ claims
Done(t)      == pc[t] = "done"
Succeeded(t) == pc[t] = "done" /\ call[t].error = "none"

\* C1: a call with top_k <= 0 fails with a validation error and issues
\* neither an embedding request nor a store query.
C1_InvalidTopKRejected ==
    \A t \in Threads :
        (pc[t] /= "idle" /\ call[t].top_k <= 0) =>
            /\ call[t].emb_requests = 0
            /\ call[t].store_queries = 0
            /\ pc[t] = "done"
            /\ IsFailure(call[t].result)

\* C2: a request whose own embedding call and store query would succeed
\* returns its formatted results, whatever failed in the requests before it.
C2_FailureIsolated ==
    \A t \in Threads :
        (/\ Done(t)
         /\ call[t].query_embedding /= NoVector
         /\ call[t].top_k >= 0
         /\ call[t].error /= "store") => ~IsFailure(call[t].result)

\* C3: under inner_product the store ranks a higher raw inner product with
\* the query vector before a lower one.
C3_InnerProductDescending ==
    (q_pc = "ranked" /\ q_in.model.distance_metric = "inner_product") =>
        \A i, j \in 1..Len(q_ranked) : i < j =>
            Dot(q_ranked[i].embedding, q_in.query_embedding)
                >= Dot(q_ranked[j].embedding, q_in.query_embedding)

\* C4: no two requests are inside a query on the shared connection (between
\* cursor.execute and the return of fetchall) at the same time.
C4_ConnectionSerialized ==
    Cardinality({ t \in Threads : pc[t] \in {"execute", "fetch"} }) <= 1

\* C5: when the embedding call fails the tool returns a failure string and
\* no store query is issued for that request.
C5_EmbedFailureNoStoreQuery ==
    \A t \in Threads :
        call[t].error = "embedding" =>
            /\ pc[t] = "done"
            /\ IsFailure(call[t].result)
            /\ call[t].store_queries = 0
            /\ call[t].rows = <<>>

C5_Witness ==
    \E t \in Threads : Done(t) /\ call[t].error = "embedding"

\* C6: every profile of the registry has a tool that uses that profile's
\* model and that same profile's task.
C6_OneToolPerProfile ==
    \A k \in DOMAIN models :
        \E tool \in Tools : ToolProfile[tool].model = k /\ ToolProfile[tool].task = k

\* C7: the output renders exactly the rows the store returned, in the same
\* order, numbered 1..n, each with its name, id and content.
C7_OrderPreserved ==
    \A t \in Threads :
        (Succeeded(t) /\ Len(call[t].rows) > 0) =>
            LET rows == call[t].rows
                out  == call[t].result
                n    == Len(rows)
            IN  /\ Len(out) = n * PartLen + (n - 1)
                /\ \A k \in 1..n :
                     LET off == (k - 1) * (PartLen + 1)
                     IN  /\ out[off + 1] = "--- Result "
                         /\ out[off + 2] = ToString(k)
                         /\ out[off + 4] = rows[k][2]
                         /\ out[off + 6] = ToString(rows[k][1])
                         /\ out[off + 10] = rows[k][3]

C7_Witness ==
    \E t \in Threads : Succeeded(t) /\ Len(call[t].rows) >= 2

\* C8: every profile's distance_metric has an entry in both resolver tables,
\* in every state, and no request fails to resolve its metric.
C8_MetricsResolve ==
    /\ \A k \in DOMAIN models :
          /\ models[k].distance_metric \in DOMAIN distance_operators
          /\ models[k].distance_metric \in DOMAIN distance_order
    /\ \A t \in Threads : call[t].error /= "config"

C8_Witness ==
    \E t \in Threads :
        /\ pc[t] = "fetch"
        /\ models[ToolProfile[call[t].tool].model].distance_metric = "cosine"
        /\ call[t].store_queries = 1

\* C9: a store query that succeeds with zero rows yields exactly the
\* sentinel string.
C9_EmptyIsSentinel ==
    \A t \in Threads :
        (Succeeded(t) /\ call[t].rows = <<>>) => call[t].result = <<NoResults>>

C9_Witness ==
    \E t \in Threads : Succeeded(t) /\ call[t].rows = <<>> /\ call[t].top_k >= 1

\* C10: one embedding request per invocation, then at most one store query,
\* issued only after the embedding succeeded; nothing is retried.
C10_OneEmbedThenOneQuery ==
    \A t \in Threads :
        /\ call[t].emb_requests = (IF pc[t] = "idle" THEN 0 ELSE 1)
        /\ call[t].store_queries \in {0, 1}
        /\ call[t].store_queries = 1 =>
              call[t].query_embedding /= NoVector /\ call[t].error /= "embedding"
        /\ pc[t] \in {"execute", "fetch"} => call[t].store_queries = 1
        /\ (Done(t) /\ call[t].error \notin {"embedding", "config"}) =>
              call[t].store_queries = 1

C10_Witness ==
    \E t \in Threads : Done(t) /\ call[t].error = "store" /\ call[t].store_queries = 1

====
